---- MODULE Spec2Model ----
(***************************************************************************)
(* Model of the multi-tenant SQLAlchemy plugin:                            *)
(*   - config.py: SQLAlchemyMultiTenantAsyncConfig.provide_session, the    *)
(*     per-request session provider with schema translation;              *)
(*   - plugin_commands.py: the "database" CLI command group.               *)
(*                                                                         *)
(* Strings whose characters matter (slugs, schema names, prefixes,         *)
(* separators) are sequences of one-character strings, so that            *)
(* concatenation, slugification and prefix tests are computed.  Labels     *)
(* that are only compared for equality (revision types, script            *)
(* locations) are TLA+ strings.                                            *)
(***************************************************************************)
EXTENDS Integers, Sequences, FiniteSets, TLC

VARIABLES
    self,           \* the SQLAlchemyMultiTenantAsyncConfig serving requests
    pathParams,     \* scope -> the request's organisation_slug path parameter
    scopeState,     \* scope -> advanced-alchemy scope state: set of <<key, session>>
    engineOptions,  \* execution options of the shared engine (self.get_engine())
    dbDefaultSchema,\* schema the database resolves unqualified tables to
    makerLog,       \* keyword arguments of every session_maker invocation, in order
    makerCount,     \* scope -> number of session_maker invocations made for it
    returned,       \* scope -> sessions returned by provide_session, in call order
    app,            \* the Litestar application seen by the CLI: its plugin registry
    dbSchemas,      \* names of the schemas that exist in the database
    cmd,            \* the CLI invocation last run: command name and its inputs
    log             \* what that invocation did, in order (prompts, engine calls, SQL, errors)

providerVars == <<self, pathParams, scopeState, engineOptions, dbDefaultSchema,
                  makerLog, makerCount, returned>>
cliVars == <<app, dbSchemas, cmd, log>>
vars == <<self, pathParams, scopeState, engineOptions, dbDefaultSchema,
          makerLog, makerCount, returned, app, dbSchemas, cmd, log>>

(***************************************************************************)
(* Bounds                                                                  *)
(***************************************************************************)
MaxSlugLen == 3     \* longest organisation_slug drawn
MaxCalls == 2       \* provide_session calls per request scope

Scopes == {"scope1", "scope2"}

\* Characters a slug is drawn from: lower-case letter, upper-case letter,
\* punctuation, whitespace, hyphen, underscore.
SlugChars == {"a", "B", "!", " ", "-", "_"}

RECURSIVE SeqsUpTo(_, _)
SeqsUpTo(S, n) ==
    IF n = 0 THEN {<<>>}
    ELSE LET shorter == SeqsUpTo(S, n - 1)
         IN  shorter \cup {Append(s, c) : s \in {t \in shorter : Len(t) = n - 1}, c \in S}

RECURSIVE Flatten(_)
Flatten(ss) == IF ss = <<>> THEN <<>> ELSE Head(ss) \o Flatten(Tail(ss))

(***************************************************************************)
(* Configuration objects (config.py:20-32)                                 *)
(***************************************************************************)
DefaultConfig ==
    [ core_schema_name        |-> <<"c", "o", "r", "e">>,
      core_revision_name      |-> "core",
      tenant_schema_prefix    |-> <<"t", "e", "n", "a", "n", "t">>,
      tenant_revision_name    |-> "tenant",
      tenant_schema_separator |-> <<"_">>,
      script_location         |-> "migrations",
      metadata_tables         |-> {"user", "team", "member_link"},
      session_scope_key       |-> "_sqlalchemy_db_session" ]

CustomConfig ==
    [ core_schema_name        |-> <<"m", "a", "i", "n">>,
      core_revision_name      |-> "base",
      tenant_schema_prefix    |-> <<"o", "r", "g">>,
      tenant_revision_name    |-> "org",
      tenant_schema_separator |-> <<"-">>,
      script_location         |-> "db/alembic",
      metadata_tables         |-> {"user", "audit"},
      session_scope_key       |-> "_custom_db_session" ]

ConfigSet == {DefaultConfig, CustomConfig}

(***************************************************************************)
(* Request path parameters.  path_params.get("organisation_slug", None)    *)
(* yields None when the key is absent or bound to None, else the string.   *)
(***************************************************************************)
AbsentParam == [kind |-> "absent", value |-> <<>>]
NoneParam == [kind |-> "none", value |-> <<>>]
StrParam(s) == [kind |-> "str", value |-> s]

PathParamSet == {AbsentParam, NoneParam} \cup {StrParam(s) : s \in SeqsUpTo(SlugChars, MaxSlugLen)}

\* The requests in flight: scope1 carries any parameter of PathParamSet, the
\* request running beside it in scope2 one of a few (no tenant, or a tenant
\* that may or may not be scope1's).
OtherParamSet == {AbsentParam, StrParam(<<>>), StrParam(<<"a">>), StrParam(<<"B", " ", "a">>)}

RequestParams(scope) == IF scope = "scope1" THEN PathParamSet ELSE OtherParamSet

\* config.py:49 request.path_params.get("organisation_slug", None);
\* the result is [isNone, value].
path_params_get(p) ==
    IF p.kind = "str" THEN [isNone |-> FALSE, value |-> p.value]
    ELSE [isNone |-> TRUE, value |-> <<>>]

\* Faulty variant: `is not None` in place of truthiness.
Truthy_NotNone(v) == ~v.isNone

\* Python truthiness of `str | None` (config.py:51).
Truthy(v) == ~v.isNone /\ v.value # <<>>

(***************************************************************************)
(* advanced_alchemy.utils.text.slugify(value, separator=sep), as called    *)
(* at config.py:53 (allow_unicode False; the alphabet is ASCII, so the     *)
(* NFKD/ascii step leaves it unchanged).                                   *)
(***************************************************************************)
Lower(c) == IF c = "B" THEN "b" ELSE c

IsWordChar(c) == c \in {"a", "b", "B", "_"}
IsSpace(c) == c = " "

\* value.lower()
LowerStr(s) == [i \in 1..Len(s) |-> Lower(s[i])]

\* re.sub(r"[^\w\s-]", "", value)
DropSpecial(s) == SelectSeq(s, LAMBDA c : IsWordChar(c) \/ IsSpace(c) \/ c = "-")

\* re.sub(r"[-\s]+", "-", value)
RECURSIVE CollapseDashes(_)
CollapseDashes(s) ==
    IF s = <<>> THEN <<>>
    ELSE IF Head(s) = "-" \/ IsSpace(Head(s))
         THEN IF Len(s) > 1 /\ (s[2] = "-" \/ IsSpace(s[2]))
              THEN CollapseDashes(Tail(s))
              ELSE <<"-">> \o CollapseDashes(Tail(s))
         ELSE <<Head(s)>> \o CollapseDashes(Tail(s))

\* value.strip("-_")
RECURSIVE LStrip(_)
LStrip(s) == IF s # <<>> /\ Head(s) \in {"-", "_"} THEN LStrip(Tail(s)) ELSE s

RECURSIVE RStrip(_)
RStrip(s) ==
    IF s # <<>> /\ s[Len(s)] \in {"-", "_"} THEN RStrip(SubSeq(s, 1, Len(s) - 1)) ELSE s

Strip(s) == RStrip(LStrip(s))

\* value.replace("-", separator)
ReplaceDash(s, sep) == Flatten([i \in 1..Len(s) |-> IF s[i] = "-" THEN sep ELSE <<s[i]>>])

slugify(value, separator) ==
    ReplaceDash(Strip(CollapseDashes(DropSpecial(LowerStr(value)))), separator)

(***************************************************************************)
(* Engine, session maker and scope state as used by provide_session        *)
(***************************************************************************)
NoneKey == "None"   \* the Python None used as the key of the translation map

\* A value of type `X | None`.
None == [isNone |-> TRUE]
Some(v) == [isNone |-> FALSE, value |-> v]

\* The engine a session is bound to: the shared engine itself (its options
\* are read from engineOptions) or an engine derived from it with options of
\* its own.
SharedEngine == [kind |-> "shared", schema_translate_map |-> {}]
DerivedEngine(map) == [kind |-> "derived", schema_translate_map |-> map]

\* config.py:60 engine.execution_options(schema_translate_map=map): returns a
\* new engine carrying the options; the engine it is called on keeps its own.
\* The result is [engine, sharedOptions]: the engine returned and the shared
\* engine's options afterwards.
execution_options_InPlace(sharedOptions, map) ==
    [engine |-> SharedEngine, sharedOptions |-> map]

execution_options(sharedOptions, map) ==
    [engine |-> DerivedEngine(map), sharedOptions |-> sharedOptions]

\* config.py:58-62 session_maker(**kwargs): a new session, bound to kwargs'
\* bind when given and to the maker's own (shared) engine otherwise.
session_maker(kwargs, id) ==
    [id |-> id, bind |-> IF kwargs.hasBind THEN kwargs.bind ELSE SharedEngine]

NoBindKwargs == [hasBind |-> FALSE, bind |-> SharedEngine]
BindKwargs(engine) == [hasBind |-> TRUE, bind |-> engine]

\* Faulty variant: the cached value is never found.
get_aa_scope_state_Miss(st, key) == None

\* config.py:44 get_aa_scope_state(scope, key): the value under key, or None.
get_aa_scope_state(st, key) ==
    IF \E e \in st : e[1] = key
    THEN Some((CHOOSE e \in st : e[1] = key)[2])
    ELSE None

\* config.py:63 set_aa_scope_state(scope, key, value): binds key to value.
set_aa_scope_state(st, key, value) ==
    {e \in st : e[1] # key} \cup {<<key, value>>}

(***************************************************************************)
(* SQLAlchemyMultiTenantAsyncConfig.provide_session (config.py:34-64)      *)
(***************************************************************************)
\* config.py:52-54 the schema name of a tenant.
schema_name(cfg, organisation_slug) ==
    cfg.tenant_schema_prefix \o slugify(organisation_slug, cfg.tenant_schema_separator)

\* config.py:47-55 the schema-translation map of a request: None, or
\* {None: schema_name}.
schema_translation_map(cfg, param) ==
    LET organisation_slug == path_params_get(param)
    IN  IF Truthy(organisation_slug)
        THEN Some({<<NoneKey, schema_name(cfg, organisation_slug.value)>>})
        ELSE None

\* Python truthiness of `dict | None` (config.py:59).
TruthyMap(m) == ~m.isNone /\ m.value # {}

\* The whole call.  Result: the session returned, the scope state and the
\* shared engine's options afterwards, and the session_maker invocations made
\* (their keyword arguments).
provide_session(cfg, st, param, sharedOptions, nextId) ==
    LET session == get_aa_scope_state(st, cfg.session_scope_key)
        stm == schema_translation_map(cfg, param)
    IN  IF session.isNone
        THEN IF TruthyMap(stm)
             THEN LET eo == execution_options(sharedOptions, stm.value)
                      new == session_maker(BindKwargs(eo.engine), nextId)
                  IN  [ session |-> new,
                        scopeState |-> set_aa_scope_state(st, cfg.session_scope_key, new),
                        sharedOptions |-> eo.sharedOptions,
                        makerCalls |-> <<BindKwargs(eo.engine)>> ]
             ELSE LET new == session_maker(NoBindKwargs, nextId)
                  IN  [ session |-> new,
                        scopeState |-> set_aa_scope_state(st, cfg.session_scope_key, new),
                        sharedOptions |-> sharedOptions,
                        makerCalls |-> <<NoBindKwargs>> ]
        ELSE [ session |-> session.value,
               scopeState |-> st,
               sharedOptions |-> sharedOptions,
               makerCalls |-> <<>> ]

\* Schema of the database; "public" is the schema a connection resolves
\* unqualified tables to unless the deployment changes it.
Public == <<"p", "u", "b", "l", "i", "c">>

\* The translation map in force for a session: that of the engine it is bound to.
EffectiveMap(session, sharedOptions) ==
    IF session.bind.kind = "shared" THEN sharedOptions ELSE session.bind.schema_translate_map

\* Schema an unqualified table reference resolves to when executed through
\* the session: the translation map's entry for None when there is one,
\* else the database default.
TargetSchema(session, sharedOptions, default) ==
    LET m == EffectiveMap(session, sharedOptions)
    IN  IF \E e \in m : e[1] = NoneKey
        THEN (CHOOSE e \in m : e[1] = NoneKey)[2]
        ELSE default

(***************************************************************************)
(* plugin.py and plugin_commands.py: the application's plugin registry     *)
(***************************************************************************)
MaxConfigs == 2     \* configurations one plugin holds at most

RECURSIVE SeqsOfLen(_, _)
SeqsOfLen(S, n) ==
    IF n = 0 THEN {<<>>} ELSE {Append(s, c) : s \in SeqsOfLen(S, n - 1), c \in S}

\* plugin.py:13-22 SQLAlchemyInitMultiTenantPlugin(config): config is one
\* configuration or a sequence of them.
MultiTenantPlugin(isSequence, items) ==
    [type |-> "SQLAlchemyInitMultiTenantPlugin", isSequence |-> isSequence, items |-> items]

\* Another plugin an application may register instead (the base plugin).
BasePlugin == [type |-> "SQLAlchemyInitPlugin", isSequence |-> FALSE, items |-> <<DefaultConfig>>]

PluginSet ==
    {MultiTenantPlugin(FALSE, <<c>>) : c \in ConfigSet}
    \cup {MultiTenantPlugin(TRUE, cs) : cs \in UNION {SeqsOfLen(ConfigSet, n) : n \in 1..MaxConfigs}}

\* plugin.py:25-30 the config property: always a sequence.
config(plugin) == IF plugin.isSequence THEN plugin.items ELSE <<plugin.items[1]>>

\* The applications the CLI is run against: plugins is the registry.
AppSet == {[plugins |-> {}], [plugins |-> {BasePlugin}]}
          \cup {[plugins |-> {pl}] : pl \in PluginSet}
          \cup {[plugins |-> {MultiTenantPlugin(FALSE, <<CustomConfig>>), BasePlugin}]}

\* An event of a CLI run.
Ev(e, a) == [ev |-> e, arg |-> a]
Raise(err) == Ev("raise", <<err>>)

Raised(l) == l # <<>> /\ l[Len(l)].ev = "raise"

\* plugin_commands.py:31 app.plugins.get(SQLAlchemyInitMultiTenantPlugin):
\* the plugin registered under exactly that type, KeyError when there is none.
plugins_get(a, type) ==
    IF \E pl \in a.plugins : pl.type = type
    THEN [raised |-> FALSE, error |-> "", plugin |-> CHOOSE pl \in a.plugins : pl.type = type]
    ELSE [raised |-> TRUE, error |-> "KeyError", plugin |-> BasePlugin]

\* Faulty variant: any registered plugin is accepted, and a missing one is no error.
get_database_migration_plugin_Lenient(a) ==
    [raised |-> FALSE, error |-> "",
     plugin |-> IF a.plugins = {} THEN BasePlugin ELSE CHOOSE pl \in a.plugins : TRUE]

\* plugin_commands.py:22-33
get_database_migration_plugin(a) ==
    LET got == plugins_get(a, "SQLAlchemyInitMultiTenantPlugin")
    IN  IF ~got.raised THEN got
        ELSE IF got.error = "KeyError"      \* suppress(KeyError)
             THEN [raised |-> TRUE, error |-> "ImproperConfigurationError", plugin |-> BasePlugin]
             ELSE got

(***************************************************************************)
(* Revision-type validation (plugin_commands.py:36-52)                     *)
(***************************************************************************)
\* Lower-casing of the labels that occur, for the case-insensitive variant.
LowerLabel(l) ==
    CASE l = "Core" -> "core"
      [] l = "TENANT" -> "tenant"
      [] OTHER -> l

is_valid_revision_type_IgnoreCase(revision_type, valid_revision_type) ==
    \E i \in 1..Len(valid_revision_type) :
        LowerLabel(valid_revision_type[i]) = LowerLabel(revision_type)

\* plugin_commands.py:36-40
is_valid_revision_type(revision_type, valid_revision_type) ==
    IF \E i \in 1..Len(valid_revision_type) : valid_revision_type[i] = revision_type
    THEN TRUE
    ELSE FALSE

\* Python truthiness of `str | None` for labels (plugin_commands.py:45).
TruthyLabel(v) == ~v.isNone /\ v.value # ""

\* plugin_commands.py:45-49 click.prompt with Choice(valid, case_sensitive=True):
\* the user's answer is one of the choices.
prompt(valid_revision_type, choice) == valid_revision_type[choice]

\* plugin_commands.py:51 BadOptionUsage(...) with the positional arguments
\* args.  click's constructor is __init__(self, option_name, message,
\* ctx=None): with fewer than two positional arguments the call fails with
\* TypeError before any object exists.
BadOptionUsage(args) ==
    IF Len(args) < 2
    THEN [raised |-> TRUE, error |-> "TypeError"]
    ELSE [raised |-> FALSE, error |-> ""]

\* Faulty variant: the mismatch is ignored and the value returned as it is.
prompt_and_validate_revision_Silent(revision_type, valid_revision_type, choice) ==
    LET prompted == ~TruthyLabel(revision_type)
        rt == IF prompted THEN prompt(valid_revision_type, choice) ELSE revision_type.value
    IN  [raised |-> FALSE, value |-> rt,
         events |-> IF prompted THEN <<Ev("prompt", <<rt>>)>> ELSE <<>>]

\* plugin_commands.py:43-52.  Result: whether the call raised, the value it
\* returns otherwise, and what it did (prompt shown, error raised).
prompt_and_validate_revision(revision_type, valid_revision_type, choice) ==
    LET prompted == ~TruthyLabel(revision_type)
        rt == IF prompted THEN prompt(valid_revision_type, choice) ELSE revision_type.value
        events == IF prompted THEN <<Ev("prompt", <<rt>>)>> ELSE <<>>
    IN  IF ~is_valid_revision_type(rt, valid_revision_type)
        THEN LET made == BadOptionUsage(<<"Revision type should be one of [{}|{}]">>)
             IN  IF made.raised
                 THEN [raised |-> TRUE, value |-> rt, events |-> events \o <<Raise(made.error)>>]
                 ELSE [raised |-> FALSE, value |-> rt, events |-> events]
        ELSE [raised |-> FALSE, value |-> rt, events |-> events]

(***************************************************************************)
(* The external migration engine and the database, as the commands use     *)
(* them                                                                    *)
(***************************************************************************)
\* AlembicCommands(sqlalchemy_config): its config starts at the
\* configuration's own script_location.
AlembicCommands(sqlalchemy_config) ==
    [script_location |-> <<sqlalchemy_config.script_location>>]

\* f"{script_location}/{revision_type}" (e.g. plugin_commands.py:83)
RevisionDirectory(location, revision_type) == <<location, "/", revision_type>>

\* Faulty variant: the option is not stored.
set_main_option_Dropped(commands, name, value) == commands

\* alembic_commands.config.set_main_option(name, value)
set_main_option(commands, name, value) ==
    IF name = "script_location" THEN [commands EXCEPT !.script_location = value] ELSE commands

\* A call of the migration engine: the operation and the script_location
\* its config holds at that moment.
AlembicCall(commands, operation) == Ev("alembic", <<operation>> \o commands.script_location)

\* rich.prompt.Confirm.ask: shown to the user, who answers yes or no.
ConfirmAsk(answer) == Ev("Confirm.ask", <<IF answer THEN "y" ELSE "n">>)

\* The lines every revision command ends with (e.g. plugin_commands.py:71-85,
\* 142-156): plugin lookup, revision-type validation, the engine pointed at
\* the revision type's directory, the operation.
revision_command(a, revision_type, choice, operation) ==
    LET lookup == get_database_migration_plugin(a)
    IN  IF lookup.raised THEN <<Raise(lookup.error)>>
        ELSE LET sqlalchemy_config == config(lookup.plugin)[1]
                 valid_revision == <<sqlalchemy_config.core_revision_name,
                                     sqlalchemy_config.tenant_revision_name>>
                 checked == prompt_and_validate_revision(revision_type, valid_revision, choice)
             IN  IF checked.raised THEN checked.events
                 ELSE LET alembic_commands ==
                              set_main_option(AlembicCommands(sqlalchemy_config), "script_location",
                                  RevisionDirectory(sqlalchemy_config.script_location, checked.value))
                      IN  checked.events \o <<AlembicCall(alembic_commands, operation)>>

\* plugin_commands.py:66-85
show_database_revision(a, revision_type, choice) ==
    revision_command(a, revision_type, choice, "current")

\* Faulty variant: the answer to the confirmation is not looked at.
downgrade_database_Unconfirmed(a, revision_type, no_prompt, answer, choice) ==
    (IF no_prompt THEN <<>> ELSE <<ConfirmAsk(answer)>>)
    \o revision_command(a, revision_type, choice, "downgrade")

\* plugin_commands.py:120-156
downgrade_database(a, revision_type, no_prompt, answer, choice) ==
    LET input_confirmed == IF no_prompt THEN TRUE ELSE answer
    IN  (IF no_prompt THEN <<>> ELSE <<ConfirmAsk(answer)>>)
        \o (IF input_confirmed
            THEN revision_command(a, revision_type, choice, "downgrade")
            ELSE <<>>)

\* plugin_commands.py:191-227
upgrade_database(a, revision_type, no_prompt, answer, choice) ==
    LET input_confirmed == IF no_prompt THEN TRUE ELSE answer
    IN  (IF no_prompt THEN <<>> ELSE <<ConfirmAsk(answer)>>)
        \o (IF input_confirmed
            THEN revision_command(a, revision_type, choice, "upgrade")
            ELSE <<>>)

\* plugin_commands.py:259-269 the loop of init-alembic over the plugin's
\* configurations from index i on; directory is the loop-carried variable.
RECURSIVE init_alembic_loop(_, _, _, _, _)
init_alembic_loop(configs, i, directory, no_prompt, answers) ==
    IF i > Len(configs) THEN <<>>
    ELSE LET cfg == configs[i]
             dir == IF directory.isNone THEN Some(cfg.script_location) ELSE directory
             input_confirmed == IF no_prompt THEN TRUE ELSE answers[i]
         IN  (IF no_prompt THEN <<>> ELSE <<ConfirmAsk(answers[i])>>)
             \o (IF input_confirmed
                 THEN << Ev("alembic", <<"init", dir.value, "/", cfg.core_revision_name>>),
                         Ev("alembic", <<"init", dir.value, "/", cfg.tenant_revision_name>>) >>
                 ELSE <<>>)
             \o init_alembic_loop(configs, i + 1, dir, no_prompt, answers)

\* plugin_commands.py:251-269
init_alembic(a, directory, no_prompt, answers) ==
    LET lookup == get_database_migration_plugin(a)
    IN  IF lookup.raised THEN <<Raise(lookup.error)>>
        ELSE init_alembic_loop(config(lookup.plugin), 1, directory, no_prompt, answers)

\* plugin_commands.py:365-366 the revision message: asked for unless given
\* or --no-prompt.
MessagePrompt(messageGiven, no_prompt) ==
    IF ~messageGiven /\ ~no_prompt THEN <<Ev("Prompt.ask", <<"message">>)>> ELSE <<>>

\* plugin_commands.py:320-393
create_revision(a, revision_type, messageGiven, no_prompt, choice) ==
    MessagePrompt(messageGiven, no_prompt) \o revision_command(a, revision_type, choice, "revision")

\* plugin_commands.py:422-454
merge_revisions(a, revision_type, messageGiven, no_prompt, choice) ==
    MessagePrompt(messageGiven, no_prompt) \o revision_command(a, revision_type, choice, "merge")

\* plugin_commands.py:497-542
stamp_revision(a, revision_type, no_prompt, answer, choice) ==
    LET lookup == get_database_migration_plugin(a)
    IN  IF lookup.raised THEN <<Raise(lookup.error)>>
        ELSE LET sqlalchemy_config == config(lookup.plugin)[1]
                 valid_revision == <<sqlalchemy_config.core_revision_name,
                                     sqlalchemy_config.tenant_revision_name>>
                 checked == prompt_and_validate_revision(revision_type, valid_revision, choice)
             IN  IF checked.raised THEN checked.events
                 ELSE LET input_confirmed == IF no_prompt THEN TRUE ELSE answer
                      IN  checked.events
                          \o (IF no_prompt THEN <<>> ELSE <<ConfirmAsk(answer)>>)
                          \o (IF input_confirmed
                              THEN revision_command(a, Some(checked.value), choice, "stamp")
                              ELSE <<>>)


\* The schema names a database may hold, in the order the inspector lists
\* them: the core schemas, schemas the provider derives for tenant "a", the
\* same tenant spelt with the separator, and the database's own default.
SchemaOrder ==
    << <<"c", "o", "r", "e">>,
       <<"m", "a", "i", "n">>,
       <<"o", "r", "g", "a">>,
       <<"p", "u", "b", "l", "i", "c">>,
       <<"t", "e", "n", "a", "n", "t", "_", "a">>,
       <<"t", "e", "n", "a", "n", "t", "a">> >>

SchemaNames == {SchemaOrder[i] : i \in 1..Len(SchemaOrder)}

\* plugin_commands.py:573 inspect(sync_conn).get_schema_names()
get_schema_names(db) == SelectSeq(SchemaOrder, LAMBDA n : n \in db)

\* str.startswith (plugin_commands.py:574)
startswith(str, prefix) ==
    Len(str) >= Len(prefix) /\ SubSeq(str, 1, Len(prefix)) = prefix

\* f"DROP SCHEMA IF EXISTS {schema} CASCADE" (plugin_commands.py:578, 582)
DropStatement(schema) == <<"DROP SCHEMA IF EXISTS ">> \o schema \o <<" CASCADE">>

\* Faulty variant: the statements are issued together and committed once.
RECURSIVE drop_schemas_OneCommit(_, _)
drop_schemas_OneCommit(schemas, db) ==
    IF schemas = <<>> THEN [log |-> <<>>, db |-> db]
    ELSE LET rest == drop_schemas_OneCommit(Tail(schemas), db \ {Head(schemas)})
         IN  [log |-> <<Ev("execute", DropStatement(Head(schemas)))>>
                      \o (IF rest.log = <<>> THEN <<Ev("commit", <<>>)>> ELSE rest.log),
              db |-> rest.db]

\* plugin_commands.py:577-579 one DROP and its commit per tenant schema.
\* Result: [log, db].
RECURSIVE drop_schemas(_, _)
drop_schemas(schemas, db) ==
    IF schemas = <<>> THEN [log |-> <<>>, db |-> db]
    ELSE LET rest == drop_schemas(Tail(schemas), db \ {Head(schemas)})
         IN  [log |-> <<Ev("execute", DropStatement(Head(schemas))), Ev("commit", <<>>)>> \o rest.log,
              db |-> rest.db]

\* plugin_commands.py:565-583 _drop_all over the configurations from index i on.
RECURSIVE drop_all_loop(_, _, _)
drop_all_loop(configs, i, db) ==
    IF i > Len(configs) THEN [log |-> <<>>, db |-> db]
    ELSE LET cfg == configs[i]
             all_schemas == get_schema_names(db)
             tenant_schemas == SelectSeq(all_schemas, LAMBDA n : startswith(n, cfg.tenant_schema_prefix))
             tenants == drop_schemas(tenant_schemas, db)
             core == drop_schemas(<<cfg.core_schema_name>>, tenants.db)
             rest == drop_all_loop(configs, i + 1, core.db)
         IN  [log |-> <<Ev("get_schema_names", <<>>)>> \o tenants.log \o core.log \o rest.log,
              db |-> rest.db]

\* plugin_commands.py:555-589.  Result: [log, db].
drop_all(a, no_prompt, answer, db) ==
    LET asked == IF no_prompt THEN <<>> ELSE <<ConfirmAsk(answer)>>
        input_confirmed == no_prompt \/ answer
        lookup == get_database_migration_plugin(a)
    IN  IF lookup.raised THEN [log |-> asked \o <<Raise(lookup.error)>>, db |-> db]
        ELSE IF input_confirmed
             THEN LET r == drop_all_loop(config(lookup.plugin), 1, db)
                  IN  [log |-> asked \o r.log, db |-> r.db]
             ELSE [log |-> asked, db |-> db]

\* Table names, in a fixed order for display; "ghost" is in no registry.
TableOrder == <<"audit", "ghost", "member_link", "team", "user">>

\* orm_registry.mappers (plugin_commands.py:644): the table names of the
\* mapped classes.  "member_link" is a table of the metadata registry that no
\* class is mapped to (an association table).
OrmMapperTables == {"audit", "team", "user"}

\* Faulty variant: the requested names are not applied.
RECURSIVE dump_tables_loop_Everything(_, _, _)
dump_tables_loop_Everything(configs, i, table_names) ==
    IF i > Len(configs) THEN <<>>
    ELSE <<Ev("dump_tables",
              SelectSeq(TableOrder, LAMBDA t : t \in OrmMapperTables /\ t \in configs[i].metadata_tables))>>
         \o dump_tables_loop_Everything(configs, i + 1, table_names)

\* plugin_commands.py:628-646 _dump_tables over the configurations from index i on.
RECURSIVE dump_tables_loop(_, _, _)
dump_tables_loop(configs, i, table_names) ==
    IF i > Len(configs) THEN <<>>
    ELSE LET all_tables == "*" \in table_names
             registry == configs[i].metadata_tables
             target_tables == IF all_tables THEN registry ELSE registry \cap table_names
             models == SelectSeq(TableOrder, LAMBDA t : t \in OrmMapperTables /\ t \in target_tables)
         IN  <<Ev("dump_tables", models)>> \o dump_tables_loop(configs, i + 1, table_names)

\* plugin_commands.py:610-648
dump_table_data(a, table_names, answer) ==
    LET all_tables == "*" \in table_names
    IN  IF all_tables /\ ~answer THEN <<ConfirmAsk(answer)>>
        ELSE LET asked == IF all_tables THEN <<ConfirmAsk(answer)>> ELSE <<>>
                 lookup == get_database_migration_plugin(a)
             IN  IF lookup.raised THEN asked \o <<Raise(lookup.error)>>
                 ELSE asked \o dump_tables_loop(config(lookup.plugin), 1, table_names)

(***************************************************************************)
(* CLI invocations.  Each run of a command is one process: it starts from  *)
(* the idle state, does everything the command does, and exits.            *)
(***************************************************************************)
Labels == {"core", "tenant", "base", "org", "Core", "TENANT", "bogus", ""}

RevisionTypeSet == {None} \cup {Some(l) : l \in Labels}

\* The valid_revision_type lists the helpers are called with directly.
ValidLists == {<<c.core_revision_name, c.tenant_revision_name>> : c \in ConfigSet}
              \cup {<<"core", "core">>}

TableNameSets == SUBSET {"*", "user", "ghost"} \ {{}}

DirectorySet == {None, Some("custom_dir")}

IdleCmd ==
    [ name |-> "none", revision_type |-> None, valid |-> <<>>, no_prompt |-> FALSE,
      answers |-> <<>>, choice |-> 1, directory |-> None, message |-> FALSE,
      table_names |-> {} ]

\* What the user is asked under no_prompt: nothing.
Answers(no_prompt, n) == IF no_prompt THEN {<<>>} ELSE SeqsOfLen(BOOLEAN, n)
Answer(c) == IF c.answers = <<>> THEN FALSE ELSE c.answers[1]

Idle == cmd.name = "none"

Ran(c, l) ==
    /\ cmd' = c
    /\ log' = l
    /\ UNCHANGED <<providerVars, app, dbSchemas>>

\* A plugin as it shows in a trace: its type and its configurations' script locations.
PluginShown(pl) == <<pl.type>> \o [i \in 1..Len(config(pl)) |-> config(pl)[i].script_location]

CallGetPlugin ==
    /\ Idle
    /\ LET r == get_database_migration_plugin(app)
       IN  Ran([IdleCmd EXCEPT !.name = "get_database_migration_plugin"],
               IF r.raised THEN <<Raise(r.error)>> ELSE <<Ev("return", PluginShown(r.plugin))>>)

CallIsValid ==
    /\ Idle
    /\ \E l \in Labels, v \in ValidLists :
          Ran([IdleCmd EXCEPT !.name = "is_valid_revision_type", !.revision_type = Some(l), !.valid = v],
              <<Ev("return", <<IF is_valid_revision_type(l, v) THEN "True" ELSE "False">>)>>)

CallPromptAndValidate ==
    /\ Idle
    /\ \E rt \in RevisionTypeSet, v \in ValidLists, ch \in 1..2 :
          LET r == prompt_and_validate_revision(rt, v, ch)
          IN  Ran([IdleCmd EXCEPT !.name = "prompt_and_validate_revision", !.revision_type = rt,
                                  !.valid = v, !.choice = ch],
                  r.events \o (IF r.raised THEN <<>> ELSE <<Ev("return", <<r.value>>)>>))

ShowCurrentRevision ==
    /\ Idle
    /\ \E rt \in RevisionTypeSet, ch \in 1..2 :
          Ran([IdleCmd EXCEPT !.name = "show-current-revision", !.revision_type = rt, !.choice = ch],
              show_database_revision(app, rt, ch))

Downgrade ==
    /\ Idle
    /\ \E rt \in RevisionTypeSet, np \in BOOLEAN, ch \in 1..2 : \E ans \in Answers(np, 1) :
          LET c == [IdleCmd EXCEPT !.name = "downgrade", !.revision_type = rt, !.no_prompt = np,
                                   !.answers = ans, !.choice = ch]
          IN  Ran(c, downgrade_database(app, rt, np, Answer(c), ch))

Upgrade ==
    /\ Idle
    /\ \E rt \in RevisionTypeSet, np \in BOOLEAN, ch \in 1..2 : \E ans \in Answers(np, 1) :
          LET c == [IdleCmd EXCEPT !.name = "upgrade", !.revision_type = rt, !.no_prompt = np,
                                   !.answers = ans, !.choice = ch]
          IN  Ran(c, upgrade_database(app, rt, np, Answer(c), ch))

InitAlembic ==
    /\ Idle
    /\ \E dir \in DirectorySet, np \in BOOLEAN : \E ans \in Answers(np, MaxConfigs) :
          Ran([IdleCmd EXCEPT !.name = "init-alembic", !.directory = dir, !.no_prompt = np,
                              !.answers = ans],
              init_alembic(app, dir, np, ans))

MakeMigrations ==
    /\ Idle
    /\ \E rt \in RevisionTypeSet, msg \in BOOLEAN, np \in BOOLEAN, ch \in 1..2 :
          Ran([IdleCmd EXCEPT !.name = "make-migrations", !.revision_type = rt, !.message = msg,
                              !.no_prompt = np, !.choice = ch],
              create_revision(app, rt, msg, np, ch))

MergeMigrations ==
    /\ Idle
    /\ \E rt \in RevisionTypeSet, msg \in BOOLEAN, np \in BOOLEAN, ch \in 1..2 :
          Ran([IdleCmd EXCEPT !.name = "merge-migrations", !.revision_type = rt, !.message = msg,
                              !.no_prompt = np, !.choice = ch],
              merge_revisions(app, rt, msg, np, ch))

StampMigration ==
    /\ Idle
    /\ \E rt \in RevisionTypeSet, np \in BOOLEAN, ch \in 1..2 : \E ans \in Answers(np, 1) :
          LET c == [IdleCmd EXCEPT !.name = "stamp-migration", !.revision_type = rt, !.no_prompt = np,
                                   !.answers = ans, !.choice = ch]
          IN  Ran(c, stamp_revision(app, rt, np, Answer(c), ch))

DropAll ==
    /\ Idle
    /\ \E np \in BOOLEAN : \E ans \in Answers(np, 1) :
          LET c == [IdleCmd EXCEPT !.name = "drop-all", !.no_prompt = np, !.answers = ans]
              r == drop_all(app, np, Answer(c), dbSchemas)
          IN  /\ cmd' = c
              /\ log' = r.log
              /\ dbSchemas' = r.db
              /\ UNCHANGED <<providerVars, app>>

DumpData ==
    /\ Idle
    /\ \E names \in TableNameSets : \E ans \in Answers("*" \notin names, 1) :
          LET c == [IdleCmd EXCEPT !.name = "dump-data", !.table_names = names, !.answers = ans]
          IN  Ran(c, dump_table_data(app, names, Answer(c)))

\* The process ends; the application and the database stay as they are.
Exit ==
    /\ ~Idle
    /\ cmd' = IdleCmd
    /\ log' = <<>>
    /\ UNCHANGED <<providerVars, app, dbSchemas>>

\* Schemas a database starts with: the default schema, the core schemas, and
\* any of the tenant-like ones.
InitialDatabases ==
    {{Public, DefaultConfig.core_schema_name, CustomConfig.core_schema_name} \cup t :
        t \in SUBSET (SchemaNames \ {Public, DefaultConfig.core_schema_name, CustomConfig.core_schema_name})}

InitCli ==
    /\ app \in AppSet
    /\ dbSchemas \in InitialDatabases
    /\ cmd = IdleCmd
    /\ log = <<>>
    /\ self = DefaultConfig
    /\ pathParams = [sc \in Scopes |-> AbsentParam]
    /\ scopeState = [s \in Scopes |-> {}]
    /\ engineOptions = {}
    /\ dbDefaultSchema = Public
    /\ makerLog = <<>>
    /\ makerCount = [s \in Scopes |-> 0]
    /\ returned = [s \in Scopes |-> <<>>]

NextCli ==
    \/ CallGetPlugin
    \/ CallIsValid
    \/ CallPromptAndValidate
    \/ ShowCurrentRevision
    \/ Downgrade
    \/ Upgrade
    \/ InitAlembic
    \/ MakeMigrations
    \/ MergeMigrations
    \/ StampMigration
    \/ DropAll
    \/ DumpData
    \/ Exit

SpecCli == InitCli /\ [][NextCli]_vars


(***************************************************************************)
(* Requests: each scope is one request; provide_session runs to completion *)
(* (it is a synchronous function) and calls for different scopes           *)
(* interleave in any order.                                                *)
(***************************************************************************)
InitProvider ==
    /\ self \in ConfigSet
    /\ \E p1 \in RequestParams("scope1"), p2 \in RequestParams("scope2") :
          pathParams = [sc \in Scopes |-> IF sc = "scope1" THEN p1 ELSE p2]
    /\ scopeState = [s \in Scopes |-> {}]
    /\ engineOptions = {}
    /\ dbDefaultSchema \in {self.core_schema_name, Public}
    /\ makerLog = <<>>
    /\ makerCount = [s \in Scopes |-> 0]
    /\ returned = [s \in Scopes |-> <<>>]
    /\ app = [plugins |-> {MultiTenantPlugin(FALSE, <<self>>)}]
    /\ dbSchemas = {Public, self.core_schema_name}
    /\ cmd = IdleCmd
    /\ log = <<>>

ProvideSession(scope) ==
    /\ Len(returned[scope]) < MaxCalls
    /\ LET r == provide_session(self, scopeState[scope], pathParams[scope],
                                engineOptions, Len(makerLog) + 1)
       IN  /\ scopeState' = [scopeState EXCEPT ![scope] = r.scopeState]
           /\ engineOptions' = r.sharedOptions
           /\ makerLog' = makerLog \o r.makerCalls
           /\ makerCount' = [makerCount EXCEPT ![scope] = @ + Len(r.makerCalls)]
           /\ returned' = [returned EXCEPT ![scope] = Append(@, r.session)]
    /\ UNCHANGED <<self, pathParams, dbDefaultSchema, app, dbSchemas, cmd, log>>

NextProvider == \E scope \in Scopes : ProvideSession(scope)

SpecProvider == InitProvider /\ [][NextProvider]_vars

(***************************************************************************)
(* Properties of the session provider (checked under SpecProvider)         *)
(***************************************************************************)
Slug(sc) == path_params_get(pathParams[sc])
HasTenant(sc) == ~Slug(sc).isNone /\ Slug(sc).value # <<>>
Called(sc) == returned[sc] # <<>>
CachedSessions(sc) == {e \in scopeState[sc] : e[1] = self.session_scope_key}

\* C1: per request scope the session maker is invoked at most once; once
\* provide_session has been called, exactly one session is stored under the
\* session scope key, and every call, the first and the later ones, returned
\* that session.
C1_OneSessionPerScope ==
    \A sc \in Scopes :
        /\ makerCount[sc] <= 1
        /\ Called(sc) =>
              /\ makerCount[sc] = 1
              /\ Cardinality(CachedSessions(sc)) = 1
              /\ \A i \in 1..Len(returned[sc]) :
                    CachedSessions(sc) = {<<self.session_scope_key, returned[sc][i]>>}

C1_Witness ==
    \E sc \in Scopes : Len(returned[sc]) >= 2 /\ makerCount[sc] = 1 /\ Len(makerLog) = 2

\* C2: for a request with a non-empty organisation_slug, the schema the
\* session is bound to is prefix + separator + slugify(slug, separator).
C2_SchemaNameHasSeparator ==
    \A sc \in Scopes :
        HasTenant(sc) /\ Called(sc) =>
            returned[sc][1].bind.schema_translate_map =
                {<<NoneKey, self.tenant_schema_prefix \o self.tenant_schema_separator
                            \o slugify(Slug(sc).value, self.tenant_schema_separator)>>}

\* C3: whatever the interleaving of the requests, every session returned
\* for a request with a non-empty organisation_slug is bound to an engine of
\* its own whose translation map is exactly {None: the schema name of that
\* request's slug}, and the shared engine keeps its (empty) options.
C3_SessionBoundToOwnTenant ==
    /\ engineOptions = {}
    /\ \A sc \in Scopes : \A i \in 1..Len(returned[sc]) :
          HasTenant(sc) =>
              /\ returned[sc][i].bind.kind = "derived"
              /\ EffectiveMap(returned[sc][i], engineOptions)
                    = {<<NoneKey, schema_name(self, Slug(sc).value)>>}

C3_Witness ==
    /\ \A sc \in Scopes : HasTenant(sc) /\ Len(returned[sc]) = MaxCalls
    /\ schema_name(self, Slug("scope1").value) # schema_name(self, Slug("scope2").value)

\* C4: for a request whose organisation_slug is absent, None or empty, the
\* session is made by calling the session maker with no bind argument, no
\* translation map is in force for it, and it is cached in the scope state.
C4_NoTenantNoBind ==
    \A sc \in Scopes :
        ~HasTenant(sc) /\ Called(sc) =>
            /\ makerLog[returned[sc][1].id] = NoBindKwargs
            /\ EffectiveMap(returned[sc][1], engineOptions) = {}
            /\ <<self.session_scope_key, returned[sc][1]>> \in scopeState[sc]

C4_Witness ==
    /\ pathParams["scope1"] = NoneParam /\ Called("scope1")
    /\ pathParams["scope2"] = StrParam(<<>>) /\ Called("scope2")

\* C5: for a request with no tenant, the session returned targets the
\* configured core schema (core_schema_name).
C5_NoTenantTargetsCoreSchema ==
    \A sc \in Scopes :
        ~HasTenant(sc) /\ Called(sc) =>
            TargetSchema(returned[sc][1], engineOptions, dbDefaultSchema) = self.core_schema_name

(***************************************************************************)
(* Properties of the CLI (checked under SpecCli)                           *)
(***************************************************************************)
HasMultiTenantPlugin == \E pl \in app.plugins : pl.type = "SQLAlchemyInitMultiTenantPlugin"
RegisteredPlugin == CHOOSE pl \in app.plugins : pl.type = "SQLAlchemyInitMultiTenantPlugin"
FirstConfig == config(RegisteredPlugin)[1]
ConfiguredLabels == {FirstConfig.core_revision_name, FirstConfig.tenant_revision_name}

\* A call of the migration engine or a database operation.
IsOperation(e) == e.ev \in {"alembic", "execute", "commit", "get_schema_names", "dump_tables"}
NoOperation == \A i \in 1..Len(log) : ~IsOperation(log[i])

RevisionOperations == {"current", "upgrade", "downgrade", "revision", "merge", "stamp"}
RevisionCommands == {"show-current-revision", "upgrade", "downgrade", "make-migrations",
                     "merge-migrations", "stamp-migration"}

CliCommands == RevisionCommands \cup {"init-alembic", "drop-all", "dump-data"}

\* C6: is_valid_revision_type returns True exactly when revision_type equals,
\* case-sensitively, one of the two labels of valid_revision_type, returns
\* False otherwise, and raises nothing.
C6_ValidIffOneOfTheLabels ==
    cmd.name = "is_valid_revision_type" =>
        log = << Ev("return", << IF cmd.revision_type.value = cmd.valid[1]
                                    \/ cmd.revision_type.value = cmd.valid[2]
                                 THEN "True" ELSE "False" >>) >>

C6_Witness ==
    /\ cmd.name = "is_valid_revision_type"
    /\ cmd.revision_type = Some("Core")
    /\ cmd.valid = <<"core", "tenant">>
    /\ log = <<Ev("return", <<"False">>)>>

InvalidGiven(valid) ==
    /\ ~cmd.revision_type.isNone
    /\ cmd.revision_type.value # ""
    /\ \A i \in 1..Len(valid) : valid[i] # cmd.revision_type.value

\* The command was declined before it reached the validation (upgrade and
\* downgrade ask for confirmation first).
DeclinedBeforeValidation ==
    cmd.name \in {"upgrade", "downgrade"} /\ log = <<ConfirmAsk(FALSE)>>

\* C8 as stated: given a non-empty revision_type that is none of the two
\* labels, prompt_and_validate_revision raises nothing and returns the value
\* unchanged without prompting, and the calling command goes on to the
\* migration engine with it.
C8_InvalidTypeReturnedUnchanged ==
    /\ cmd.name = "prompt_and_validate_revision" /\ InvalidGiven(cmd.valid) =>
          log = <<Ev("return", <<cmd.revision_type.value>>)>>
    /\ cmd.name \in RevisionCommands /\ HasMultiTenantPlugin
         /\ InvalidGiven(<<FirstConfig.core_revision_name, FirstConfig.tenant_revision_name>>) =>
          DeclinedBeforeValidation \/ ~Raised(log)

\* C8 amended: given a non-empty revision_type that is none of the two
\* labels, prompt_and_validate_revision neither prompts nor returns: the
\* construction of BadOptionUsage with a single argument fails with
\* TypeError, which propagates; a command that reaches the validation with
\* such a revision type ends with that error and calls the migration engine
\* never.
C8_InvalidTypeEndsInTypeError ==
    /\ cmd.name = "prompt_and_validate_revision" /\ InvalidGiven(cmd.valid) =>
          log = <<Raise("TypeError")>>
    /\ cmd.name \in RevisionCommands /\ HasMultiTenantPlugin
         /\ InvalidGiven(<<FirstConfig.core_revision_name, FirstConfig.tenant_revision_name>>) =>
          /\ NoOperation
          /\ \A i \in 1..Len(log) : log[i].ev # "prompt"
          /\ DeclinedBeforeValidation \/ (Raised(log) /\ log[Len(log)] = Raise("TypeError"))

C8_Witness ==
    /\ cmd.name = "upgrade"
    /\ cmd.revision_type = Some("bogus")
    /\ HasMultiTenantPlugin
    /\ log = <<ConfirmAsk(TRUE), Raise("TypeError")>>

\* C9: in every command that takes a revision type, whenever the migration
\* engine operation is invoked the engine's script_location is
\* "{script_location}/{revision_type}" of the first configuration, and that
\* revision_type is one of its two configured labels.
C9_EnginePointedAtRevisionDirectory ==
    \A i \in 1..Len(log) :
        log[i].ev = "alembic" /\ log[i].arg[1] \in RevisionOperations =>
            /\ cmd.name \in RevisionCommands
            /\ HasMultiTenantPlugin
            /\ \E rt \in ConfiguredLabels :
                  log[i].arg = <<log[i].arg[1], FirstConfig.script_location, "/", rt>>

C9_Witness ==
    /\ cmd.name = "stamp-migration"
    /\ cmd.revision_type = None
    /\ log = << Ev("prompt", <<"org">>), ConfirmAsk(TRUE),
                Ev("alembic", <<"stamp", "db/alembic", "/", "org">>) >>

\* C10: in upgrade, downgrade, stamp-migration, init-alembic and drop-all,
\* an engine operation or database statement is executed only under
\* --no-prompt or after the confirmation that precedes it was answered yes;
\* after a refusal nothing is executed for it, and under --no-prompt no
\* confirmation is asked.
ConfirmedCommands == {"upgrade", "downgrade", "stamp-migration", "init-alembic", "drop-all"}

C10_OperationsOnlyWhenConfirmed ==
    cmd.name \in ConfirmedCommands =>
        /\ cmd.no_prompt => \A i \in 1..Len(log) : log[i].ev # "Confirm.ask"
        /\ \A i \in 1..Len(log) :
              IsOperation(log[i]) /\ ~cmd.no_prompt =>
                  \E j \in 1..(i - 1) :
                      /\ log[j] = ConfirmAsk(TRUE)
                      /\ \A k \in (j + 1)..(i - 1) : log[k].ev # "Confirm.ask"

C10_Witness ==
    /\ cmd.name = "init-alembic"
    /\ Len(cmd.answers) >= 2
    /\ cmd.answers[1] = FALSE /\ cmd.answers[2] = TRUE
    /\ Len(log) >= 4
    /\ log[1] = ConfirmAsk(FALSE)
    /\ log[2] = ConfirmAsk(TRUE)
    /\ log[3].ev = "alembic"

(***************************************************************************)
(* Properties of drop-all, dump-data and init-alembic (under SpecCli)      *)
(***************************************************************************)
\* The configurations the registered plugin holds.
PluginConfigs == config(RegisteredPlugin)

\* Positions in trace l where a configuration's pass of drop-all begins (its
\* enumeration of the schemas).
PassStarts(l) == SelectSeq([i \in 1..Len(l) |-> i], LAMBDA i : l[i].ev = "get_schema_names")

\* Position of the last statement of the k-th pass: two before the next
\* pass begins, or before the end of the trace.
LastStatement(l, k) ==
    IF k < Len(PassStarts(l)) THEN PassStarts(l)[k + 1] - 2 ELSE Len(l) - 1

IsDropOf(e, schema) == e = Ev("execute", DropStatement(schema))

\* The trace l of a confirmed drop-all run against database db: one pass per
\* configuration; every statement is followed at once by a commit; the
\* pass's last statement is the DROP of its core schema; every schema of db
\* that starts with its tenant prefix was dropped, and committed, before
\* that.
DropAllInOrder(l, db) ==
    /\ Len(PassStarts(l)) = Len(PluginConfigs)
    /\ \A i \in 1..Len(l) :
          /\ l[i].ev = "execute" => i < Len(l) /\ l[i + 1].ev = "commit"
          /\ l[i].ev = "commit" => i > 1 /\ l[i - 1].ev = "execute"
    /\ \A k \in 1..Len(PluginConfigs) :
          LET cfg == PluginConfigs[k]
              last == LastStatement(l, k)
          IN  /\ last > PassStarts(l)[k]
              /\ IsDropOf(l[last], cfg.core_schema_name)
              /\ \A n \in db :
                    startswith(n, cfg.tenant_schema_prefix) =>
                        \E j \in 1..(last - 2) : IsDropOf(l[j], n) /\ l[j + 1].ev = "commit"
              /\ \A j \in (PassStarts(l)[k] + 1)..(last - 1) :
                    l[j].ev = "execute" =>
                        \E n \in db : startswith(n, cfg.tenant_schema_prefix) /\ IsDropOf(l[j], n)

\* drop-all went ahead: the plugin is there and the user did not refuse.
DropAllConfirmed(c) ==
    c.name = "drop-all" /\ HasMultiTenantPlugin /\ (c.no_prompt \/ c.answers = <<TRUE>>)

\* C11: in a confirmed drop-all, for each configuration, the tenant schemas
\* are dropped one at a time, each DROP followed by its own commit before
\* the next statement, and the core schema's DROP comes only after every
\* schema matching the tenant prefix has been dropped and committed.
C11_TenantsDroppedAndCommittedBeforeCore ==
    [][Idle /\ DropAllConfirmed(cmd') => DropAllInOrder(log', dbSchemas)]_vars

C11_Witness ==
    /\ cmd.name = "drop-all"
    /\ HasMultiTenantPlugin
    /\ PluginConfigs = <<DefaultConfig>>
    /\ log = << Ev("get_schema_names", <<>>),
                Ev("execute", DropStatement(<<"t", "e", "n", "a", "n", "t", "_", "a">>)),
                Ev("commit", <<>>),
                Ev("execute", DropStatement(<<"t", "e", "n", "a", "n", "t", "a">>)),
                Ev("commit", <<>>),
                Ev("execute", DropStatement(DefaultConfig.core_schema_name)),
                Ev("commit", <<>>) >>

\* The table names of the dump calls in trace l, one set per call, in order.
Dumped(l) ==
    LET calls == SelectSeq(l, LAMBDA e : e.ev = "dump_tables")
    IN  [k \in 1..Len(calls) |-> {calls[k].arg[i] : i \in 1..Len(calls[k].arg)}]

DumpDeclined == "*" \in cmd.table_names /\ cmd.answers = <<FALSE>>

TenantSchemaNames(cfg) ==
    {schema_name(cfg, slug) : slug \in SeqsUpTo(SlugChars, MaxSlugLen) \ {<<>>}}

\* The schemas trace l issues a DROP SCHEMA for.
DroppedSchemas(l) ==
    {SubSeq(l[i].arg, 2, Len(l[i].arg) - 1) : i \in {j \in 1..Len(l) : l[j].ev = "execute"}}

\* C13: a confirmed drop-all issues DROP SCHEMA for exactly the existing
\* schemas that belong to tenants of its configurations (the names
\* provide_session derives for a tenant) and for the core schemas, and for
\* no other schema.
C13_DropsOnlyTenantAndCoreSchemas ==
    [][Idle /\ DropAllConfirmed(cmd') =>
          DroppedSchemas(log') =
              UNION {(dbSchemas \cap TenantSchemaNames(PluginConfigs[k]))
                        \cup {PluginConfigs[k].core_schema_name} : k \in 1..Len(PluginConfigs)}]_vars

\* The engine's init calls in trace l, in order.
InitCalls(l) == SelectSeq(l, LAMBDA e : e.ev = "alembic" /\ e.arg[1] = "init")

\* The init calls owed to configuration cfg, when its initialization is
\* confirmed: its own script_location, core revision first.
OwnInitCalls(cfg, confirmed) ==
    IF confirmed
    THEN << Ev("alembic", <<"init", cfg.script_location, "/", cfg.core_revision_name>>),
            Ev("alembic", <<"init", cfg.script_location, "/", cfg.tenant_revision_name>>) >>
    ELSE <<>>

\* C14: init-alembic without a directory argument, on a plugin holding
\* several configurations: for every configuration whose initialization is
\* confirmed the engine's init is invoked exactly twice, on that
\* configuration's own script_location with the core and then the tenant
\* revision name, whatever configurations came before it.
C14_EachConfigInitializedInItsOwnDirectory ==
    cmd.name = "init-alembic" /\ cmd.directory = None /\ HasMultiTenantPlugin =>
        InitCalls(log) =
            Flatten([k \in 1..Len(PluginConfigs) |->
                        OwnInitCalls(PluginConfigs[k], cmd.no_prompt \/ cmd.answers[k])])

====
